---- MODULE Spec2Model ----
(***************************************************************************)
(* Referral/commission ledger: registration, order creation and the        *)
(* settlement of an order (OrderService.verify_and_complete_order) over    *)
(* the user, package, order and commission tables.                         *)
(*                                                                         *)
(* Every request runs in its own database session (database.get_session).  *)
(* A step of the model is one stretch of a handler between two points       *)
(* where the database makes its writes visible to other sessions (a        *)
(* commit); reads of a session see the committed tables.                   *)
(***************************************************************************)
EXTENDS Integers, Sequences, FiniteSets, TLC

\* ------------------------------------------------------------------ bounds
MaxUsers == 2
SeqUsers == 4
MaxOrders == 1
NumProcs == 2
MaxClock == 5
OrdersUsers == 2
OrdersOrders == 2
ReferralUsers == 4
CatalogUsers == 1
CatalogOrders == 2
MaxAttempts == 3
MaxBasePrice == 300
MaxOrderIds == 3

Procs == 1..NumProcs

\* ------------------------------------------------------- values of the code
\* None of an Optional[int] column. None and 0 are both falsy where the code
\* tests an id (services.py:212, razorpay_service.py:72,80) and no row has
\* id 0 (ids are autoincremented from 1), so one value stands for both.
NoId == 0
\* None of Optional[datetime]; the clock starts after it.
NoTime == 0
NoTier == "none"
NoPayment == "none"
NoSignature == <<>>

PackageTier == {"silver", "gold", "platinum"}
PENDING == "pending"
COMPLETED == "completed"
FAILED == "failed"
OrderStatus == {PENDING, COMPLETED, FAILED}

\* The payment ids a caller may submit.
PaymentIds == {"pay_a"}

\* Responses of verify_and_complete_order (the ValueError texts, the success
\* message, and an exception that is no ValueError: HTTP 500).
InvalidSignature == "Invalid payment signature"
OrderNotFound == "Order not found"
AlreadyCompleted == "Order already completed"
UserNotFound == "User not found"
Verified == "Payment verified successfully"
ServerError == "Internal Server Error"

\* Outcomes of create_order: the dictionary returned, the ValueError text,
\* and the exception of the gateway client.
Created == "created"
PackageNotFound == "Package not found"

\* The ValueError of create_user.
EmailExists == "User with this email already exists"
GatewayError == "gateway error"

VARIABLES
    users,        \* table user: row id = index
    packages,     \* table package
    orders,       \* table order
    commissions,  \* table commission
    now,          \* datetime.utcnow()
    pc,           \* per worker: where its verify-payment request is
    loc,          \* per worker: the request and what its session holds
    last,         \* the latest verify-payment response, with its request
    grants,       \* per order: committed entitlement grants (update_user_package)
    wins,         \* per order: success responses returned
    gateway,      \* the payment gateway: order-create calls and orders made
    reply,        \* the latest create_order response, with its request
    returned      \* the latest return value of a function called by itself

tables == <<users, packages, orders, commissions>>
vars == <<users, packages, orders, commissions, now, pc, loc, last, grants, wins,
          gateway, reply, returned>>

\* ----------------------------------------------------------------- package
\* Binary floating point (Python float, IEEE 754 double), for
\* Package.gst_amount. Numbers wider than the model's integers are written
\* in base-256 digits, least significant digit first.
RECURSIVE Pow2(_)
Pow2(n) == IF n = 0 THEN 1 ELSE 2 * Pow2(n - 1)

RECURSIVE BitLen(_)
BitLen(n) == IF n = 0 THEN 0 ELSE 1 + BitLen(n \div 2)

\* digits * n + carry
RECURSIVE TimesDigits(_, _, _, _)
TimesDigits(digits, k, carry, n) ==
    IF k > Len(digits)
    THEN IF carry = 0 THEN << >>
         ELSE << carry % 256 >> \o TimesDigits(digits, k, carry \div 256, n)
    ELSE LET t == digits[k] * n + carry
         IN  << t % 256 >> \o TimesDigits(digits, k + 1, t \div 256, n)

\* Long division of digits by n from the most significant digit k down:
\* the quotient's digits, with the remainder in the last place.
RECURSIVE DivDigits(_, _, _, _)
DivDigits(digits, k, rem, n) ==
    IF k = 0 THEN << rem >>
    ELSE LET t == rem * 256 + digits[k]
         IN  DivDigits(digits, k - 1, t % n, n) \o << t \div n >>

\* digits + 1
RECURSIVE SuccDigits(_, _)
SuccDigits(digits, k) ==
    IF k > Len(digits) THEN Append(digits, 1)
    ELSE IF digits[k] < 255 THEN [digits EXCEPT ![k] = @ + 1]
    ELSE SuccDigits([digits EXCEPT ![k] = 0], k + 1)

\* The double gst_rate / 100, for a rate from 12.5 up to 25: the quotient
\* lies in [1/8, 1/4), so it is a 53-bit significand times 2^-55, the
\* significand being gst_rate * 2^55 / 100 rounded to nearest, ties to even.
\* 2^55 = 128 * 256^6.
Quotient(gst_rate) ==
    LET scaled == TimesDigits(<<0, 0, 0, 0, 0, 0, 128>>, 1, 0, gst_rate)
        division == DivDigits(scaled, Len(scaled), 0, 100)
        rem == division[1]
        floor == [k \in 1..(Len(division) - 1) |-> division[k + 1]]
    IN  IF 2 * rem > 100 \/ (2 * rem = 100 /\ floor[1] % 2 = 1)
        THEN SuccDigits(floor, 1)
        ELSE floor

\* int(base_price * quotient) for 0 <= base_price < 2^20: the exact product
\* (below 2^73, times 2^-55) is rounded to 53 significant bits, ties to
\* even, and int() drops the fraction. The product is held in three parts,
\* bits 0-23, bits 24-47 and the bits from 48 up.
TruncatedProduct(base_price, quotient) ==
    LET product == TimesDigits(quotient, 1, 0, base_price)
        digit(k) == IF k <= Len(product) THEN product[k] ELSE 0
        part(k) == digit(k) + 256 * digit(k + 1) + 65536 * digit(k + 2)
        low == part(1)
        mid == part(4)
        high == part(7) + 16777216 * digit(10)
        dropped == BitLen(high) - 5
    IN  IF dropped <= 0 THEN high \div 128
        ELSE LET rest == low % Pow2(dropped)
                 half == Pow2(dropped - 1)
                 odd == (low \div Pow2(dropped)) % 2 = 1
                 up == rest > half \/ (rest = half /\ odd)
                 low_rounded == low - rest + (IF up THEN Pow2(dropped) ELSE 0)
                 mid_rounded == IF low_rounded = 16777216 THEN mid + 1 ELSE mid
                 high_rounded ==
                     IF mid_rounded = 16777216 THEN high + 1 ELSE high
             IN  high_rounded \div 128

\* Mutant: the tax is rounded to the nearest unit.
gst_amount_Nearest(package) ==
    (package.base_price * package.gst_rate + 50) \div 100

\* Package.gst_amount: int(base_price * (gst_rate / 100)), in floating point.
gst_amount(package) ==
    TruncatedProduct(package.base_price, Quotient(package.gst_rate))

\* Package.final_price
final_price(package) == package.base_price + gst_amount(package)

\* packages_data of create_default_packages; gst_rate is the column default.
packages_data ==
    << [tier |-> "silver", base_price |-> 254237, gst_rate |-> 18,
        direct_commission |-> 50000, indirect_commission |-> 25000],
       [tier |-> "gold", base_price |-> 423559, gst_rate |-> 18,
        direct_commission |-> 100000, indirect_commission |-> 50000],
       [tier |-> "platinum", base_price |-> 677966, gst_rate |-> 18,
        direct_commission |-> 150000, indirect_commission |-> 75000] >>

\* select(...).first(): of the rows that satisfy the condition the one with
\* the least id, or None.
First(hits) ==
    IF hits = {} THEN NoId ELSE CHOOSE i \in hits : \A j \in hits : i <= j

RECURSIVE SeedFrom(_, _)
SeedFrom(table, k) ==
    IF k > Len(packages_data) THEN table
    ELSE LET data == packages_data[k]
         IN  IF First({i \in 1..Len(table) : table[i].tier = data.tier}) = NoId
             THEN SeedFrom(Append(table, data), k + 1)
             ELSE SeedFrom(table, k + 1)

\* Mutant: the rows are added without looking for the tier.
create_default_packages_Always(table) == table \o packages_data

\* PackageService.create_default_packages
create_default_packages(table) == SeedFrom(table, 1)

\* select(Package).where(Package.tier == tier).first()
PackageByTier(tier) ==
    First({i \in 1..Len(packages) : packages[i].tier = tier})

\* select(User).where(User.id == user_id).first()
UserById(user_id) ==
    IF user_id \in 1..Len(users) THEN user_id ELSE NoId

\* select(Order).where(Order.razorpay_order_id == id).first()
OrderByRemoteId(remote_id) ==
    First({i \in 1..Len(orders) : orders[i].razorpay_order_id = remote_id})

\* ----------------------------------------------------------------- gateway
\* HMAC-SHA256 of "{order_id}|{payment_id}" under the key secret, as an
\* injective function of the pair.
Mac(order_id, payment_id) == <<order_id, payment_id>>

Forged == <<0, "forged">>

\* Mutant: the signature is only required to be present.
verify_payment_signature_NotCompared(order_id, payment_id, signature) ==
    signature # NoSignature

\* Mutant: the payment id is left out of the signed message.
verify_payment_signature_OrderIdOnly(order_id, payment_id, signature) ==
    Len(signature) = 2 /\ signature[1] = order_id

\* RazorpayService.verify_payment_signature
verify_payment_signature(order_id, payment_id, signature) ==
    signature = Mac(order_id, payment_id)

\* Mutant: the direct referrer gets no row.
calculate_commissions_IndirectOnly(package, referrer_id, indirect_referrer_id) ==
    IF indirect_referrer_id # NoId
    THEN << [earner_id |-> indirect_referrer_id, level |-> 2,
             amount |-> package.indirect_commission] >>
    ELSE << >>

\* Mutant: level 2 is paid the direct commission.
calculate_commissions_SameAmount(package, referrer_id, indirect_referrer_id) ==
    (IF referrer_id # NoId
     THEN << [earner_id |-> referrer_id, level |-> 1,
              amount |-> package.direct_commission] >>
     ELSE << >>)
    \o
    (IF indirect_referrer_id # NoId
     THEN << [earner_id |-> indirect_referrer_id, level |-> 2,
              amount |-> package.direct_commission] >>
     ELSE << >>)

\* CommissionCalculator.calculate_commissions
calculate_commissions(package, referrer_id, indirect_referrer_id) ==
    (IF referrer_id # NoId
     THEN << [earner_id |-> referrer_id, level |-> 1,
              amount |-> package.direct_commission] >>
     ELSE << >>)
    \o
    (IF indirect_referrer_id # NoId
     THEN << [earner_id |-> indirect_referrer_id, level |-> 2,
              amount |-> package.indirect_commission] >>
     ELSE << >>)

\* -------------------------------------------------------------------- Init
Request(order_id, payment_id, signature) ==
    [order_id |-> order_id, payment_id |-> payment_id, signature |-> signature]

NoRequest == Request(NoId, NoPayment, NoSignature)
NoLoc == [request |-> NoRequest, order |-> NoId, completed_at |-> NoTime]
NoResponse == [request |-> NoRequest, message |-> "none"]
NoReply == [user_id |-> 0, package_tier |-> "none", message |-> "none",
            order_id |-> 0, amount |-> 0]
\* What a function called by itself gives its caller.
Return(function, args, value) ==
    [function |-> function, args |-> args, value |-> value]

NoReturn == Return("none", << >>, << >>)

\* The state after startup: lifespan has created the tables and seeded the
\* packages; no request is running.
Init ==
    /\ users = << >>
    /\ packages = create_default_packages(<< >>)
    /\ orders = << >>
    /\ commissions = << >>
    /\ now = 1
    /\ pc = [p \in Procs |-> "idle"]
    /\ loc = [p \in Procs |-> NoLoc]
    /\ last = NoResponse
    /\ grants = << >>
    /\ wins = << >>
    /\ gateway = [attempts |-> 0, orders |-> 0]
    /\ reply = NoReply
    /\ returned = NoReturn

\* datetime.utcnow() is read: every reading is later than the one before.
ClockRead ==
    /\ now < MaxClock
    /\ now' = now + 1

\* ---------------------------------------------------------------- register
\* UserService.create_user. Emails are compared only for equality, so a new
\* email is named by the number of its first use.
UserByEmail(email) ==
    First({i \in 1..Len(users) : users[i].email = email})

\* Mutant: the email is not looked up.
create_user_NoEmailCheck(email, referrer_id) ==
    [raised |-> "none",
     user |-> [email |-> email, referrer_id |-> referrer_id,
               package_tier |-> NoTier, purchased_at |-> NoTime]]

\* UserService.create_user: the ValueError it raises, or the row it adds
\* (the referrer_id as given).
create_user(email, referrer_id) ==
    IF UserByEmail(email) # NoId
    THEN [raised |-> EmailExists]
    ELSE [raised |-> "none",
          user |-> [email |-> email, referrer_id |-> referrer_id,
                    package_tier |-> NoTier, purchased_at |-> NoTime]]

Register(email, referrer_id) ==
    /\ create_user(email, referrer_id).raised = "none"
    /\ users' = Append(users, create_user(email, referrer_id).user)
    /\ UNCHANGED <<packages, orders, commissions, now, pc, loc, last,
                   grants, wins, gateway, reply, returned>>

\* create_user with an email already registered: ValueError, nothing written.
RegisterDuplicate(email) ==
    /\ create_user(email, NoId).raised # "none"
    /\ UNCHANGED vars

\* create_user called by itself: what it raises or the id of the new user.
CreateUser(email, referrer_id) ==
    LET result == create_user(email, referrer_id)
    IN  /\ IF result.raised = "none"
           THEN /\ users' = Append(users, result.user)
                /\ returned' = Return("create_user", <<email, referrer_id>>,
                                      [raised |-> "none", id |-> Len(users) + 1])
           ELSE /\ users' = users
                /\ returned' = Return("create_user", <<email, referrer_id>>,
                                      [raised |-> result.raised, id |-> NoId])
        /\ UNCHANGED <<packages, orders, commissions, now, pc, loc, last,
                       grants, wins, gateway, reply>>

\* ------------------------------------------------------------ create_order
\* What create_order gives its caller: the dictionary it returns, or the
\* exception it raises.
Reply(user_id, package_tier, message, order_id, amount) ==
    [user_id |-> user_id, package_tier |-> package_tier, message |-> message,
     order_id |-> order_id, amount |-> amount]

\* RazorpayService.create_order: one call of client.order.create. The
\* gateway makes an order with a fresh id, or the call raises.
GatewayCreates ==
    gateway' = [attempts |-> gateway.attempts + 1, orders |-> gateway.orders + 1]

GatewayRaises ==
    gateway' = [gateway EXCEPT !.attempts = @ + 1]

\* Mutant: the call is tried a second time before the failure is passed on.
CreateOrderGatewayFails_Retried(user_id, package_tier) ==
    /\ PackageByTier(package_tier) # NoId
    /\ gateway' = [gateway EXCEPT !.attempts = @ + 2]
    /\ reply' = Reply(user_id, package_tier, GatewayError, NoId, 0)
    /\ UNCHANGED <<users, packages, orders, commissions, now, pc, loc, last,
                   grants, wins, returned>>

\* Lines 141-150, the gateway call raises: the exception leaves create_order
\* before the order row is made.
CreateOrderGatewayFails(user_id, package_tier) ==
    /\ PackageByTier(package_tier) # NoId
    /\ GatewayRaises
    /\ reply' = Reply(user_id, package_tier, GatewayError, NoId, 0)
    /\ UNCHANGED <<users, packages, orders, commissions, now, pc, loc, last,
                   grants, wins, returned>>

\* Mutant: the gateway is called before the package is looked up.
CreateOrderPackageNotFound_GatewayFirst(user_id, package_tier) ==
    /\ PackageByTier(package_tier) = NoId
    /\ GatewayCreates
    /\ reply' = Reply(user_id, package_tier, PackageNotFound, NoId, 0)
    /\ UNCHANGED <<users, packages, orders, commissions, now, pc, loc, last,
                   grants, wins, returned>>

\* Lines 141-143: no package has the tier.
CreateOrderPackageNotFound(user_id, package_tier) ==
    /\ PackageByTier(package_tier) = NoId
    /\ reply' = Reply(user_id, package_tier, PackageNotFound, NoId, 0)
    /\ UNCHANGED <<users, packages, orders, commissions, now, pc, loc, last,
                   grants, wins, gateway, returned>>

\* The row of lines 153-159.
NewOrder(user_id, package_id, remote_id) ==
    [user_id |-> user_id, package_id |-> package_id,
     razorpay_order_id |-> remote_id,
     razorpay_payment_id |-> NoPayment,
     razorpay_signature |-> NoSignature,
     amount |-> final_price(packages[package_id]),
     status |-> PENDING, completed_at |-> NoTime]

\* Mutant: a pending order of the same user and package is used again.
CreateOrder_Deduplicated(user_id, package_tier) ==
    LET package_id == PackageByTier(package_tier)
        remote_id == gateway.orders + 1
        open == {o \in 1..Len(orders) :
                    /\ orders[o].user_id = user_id
                    /\ orders[o].package_id = package_id
                    /\ orders[o].status = PENDING}
    IN  /\ package_id # NoId
        /\ GatewayCreates
        /\ IF open = {}
           THEN /\ orders' = Append(orders,
                                    NewOrder(user_id, package_id, remote_id))
                /\ grants' = Append(grants, 0)
                /\ wins' = Append(wins, 0)
           ELSE /\ orders' = [orders EXCEPT ![First(open)].razorpay_order_id =
                                                remote_id]
                /\ UNCHANGED <<grants, wins>>
        /\ reply' = Reply(user_id, package_tier, Created, remote_id,
                          final_price(packages[package_id]))
        /\ UNCHANGED <<users, packages, commissions, now, pc, loc, last,
                       returned>>

\* OrderService.create_order for the authenticated user, lines 141-172: the
\* gateway makes the remote order and the order row is committed.
CreateOrder(user_id, package_tier) ==
    LET package_id == PackageByTier(package_tier)
        remote_id == gateway.orders + 1
    IN  /\ package_id # NoId
        /\ GatewayCreates
        /\ orders' = Append(orders, NewOrder(user_id, package_id, remote_id))
        /\ grants' = Append(grants, 0)
        /\ wins' = Append(wins, 0)
        /\ reply' = Reply(user_id, package_tier, Created, remote_id,
                          final_price(packages[package_id]))
        /\ UNCHANGED <<users, packages, commissions, now, pc, loc, last,
                       returned>>

\* ------------------------------------------------ verify_and_complete_order
\* The request ends with a response; its session is closed and the worker is
\* free for the next request.
Respond(p, request, message) ==
    /\ pc' = [pc EXCEPT ![p] = "idle"]
    /\ loc' = [loc EXCEPT ![p] = NoLoc]
    /\ last' = [request |-> request, message |-> message]

\* Mutant: a rejected confirmation leaves its signature on the order named.
VerifyInvalidSignature_RecordsAttempt(p, order_id, payment_id, signature) ==
    /\ pc[p] = "idle"
    /\ ~verify_payment_signature(order_id, payment_id, signature)
    /\ Respond(p, Request(order_id, payment_id, signature), InvalidSignature)
    /\ orders' = [o \in 1..Len(orders) |->
                     IF orders[o].razorpay_order_id = order_id
                     THEN [orders[o] EXCEPT !.razorpay_signature = signature]
                     ELSE orders[o]]
    /\ UNCHANGED <<users, packages, commissions, now, grants, wins,
                   gateway, reply, returned>>

\* Mutant: the order named by a rejected confirmation is marked failed.
VerifyInvalidSignature_MarksFailed(p, order_id, payment_id, signature) ==
    /\ pc[p] = "idle"
    /\ ~verify_payment_signature(order_id, payment_id, signature)
    /\ Respond(p, Request(order_id, payment_id, signature), InvalidSignature)
    /\ orders' = [o \in 1..Len(orders) |->
                     IF orders[o].razorpay_order_id = order_id
                     THEN [orders[o] EXCEPT !.status = FAILED]
                     ELSE orders[o]]
    /\ UNCHANGED <<users, packages, commissions, now, grants, wins,
                   gateway, reply, returned>>

\* Lines 182-186: the signature does not verify.
VerifyInvalidSignature(p, order_id, payment_id, signature) ==
    /\ pc[p] = "idle"
    /\ ~verify_payment_signature(order_id, payment_id, signature)
    /\ Respond(p, Request(order_id, payment_id, signature), InvalidSignature)
    /\ UNCHANGED <<users, packages, orders, commissions, now, grants, wins,
                     gateway, reply, returned>>

\* Mutant: the order is looked up before the signature is verified.
VerifyOrderNotFound_BeforeSignature(p, order_id, payment_id, signature) ==
    /\ pc[p] = "idle"
    /\ OrderByRemoteId(order_id) = NoId
    /\ Respond(p, Request(order_id, payment_id, signature), OrderNotFound)
    /\ UNCHANGED <<users, packages, orders, commissions, now, grants, wins,
                   gateway, reply, returned>>

\* Lines 188-194: no order has the remote id.
VerifyOrderNotFound(p, order_id, payment_id, signature) ==
    /\ pc[p] = "idle"
    /\ verify_payment_signature(order_id, payment_id, signature)
    /\ OrderByRemoteId(order_id) = NoId
    /\ Respond(p, Request(order_id, payment_id, signature), OrderNotFound)
    /\ UNCHANGED <<users, packages, orders, commissions, now, grants, wins,
                     gateway, reply, returned>>

\* Lines 196-197: the order read is completed.
VerifyAlreadyCompleted(p, order_id, payment_id, signature) ==
    LET o == OrderByRemoteId(order_id)
    IN  /\ pc[p] = "idle"
        /\ verify_payment_signature(order_id, payment_id, signature)
        /\ o # NoId
        /\ orders[o].status = COMPLETED
        /\ Respond(p, Request(order_id, payment_id, signature), AlreadyCompleted)
        /\ UNCHANGED <<users, packages, orders, commissions, now, grants, wins,
                     gateway, reply, returned>>

\* Mutant: the status of the order read is not tested.
VerifyLoadOrder_NoGuard(p, order_id, payment_id, signature) ==
    LET o == OrderByRemoteId(order_id)
    IN  /\ pc[p] = "idle"
        /\ verify_payment_signature(order_id, payment_id, signature)
        /\ o # NoId
        /\ pc' = [pc EXCEPT ![p] = "update_user_package"]
        /\ loc' = [loc EXCEPT ![p] =
               [request |-> Request(order_id, payment_id, signature),
                order |-> o, completed_at |-> now]]
        /\ ClockRead
        /\ UNCHANGED <<users, packages, orders, commissions, last, grants, wins,
                     gateway, reply, returned>>

\* Lines 182-203: the order read is not completed; the session's copy of the
\* row gets the payment id, the signature, the status and the time. Nothing
\* is written to the database yet.
VerifyLoadOrder(p, order_id, payment_id, signature) ==
    LET o == OrderByRemoteId(order_id)
    IN  /\ pc[p] = "idle"
        /\ verify_payment_signature(order_id, payment_id, signature)
        /\ o # NoId
        /\ orders[o].status # COMPLETED
        /\ pc' = [pc EXCEPT ![p] = "update_user_package"]
        /\ loc' = [loc EXCEPT ![p] =
               [request |-> Request(order_id, payment_id, signature),
                order |-> o, completed_at |-> now]]
        /\ ClockRead
        /\ UNCHANGED <<users, packages, orders, commissions, last, grants, wins,
                     gateway, reply, returned>>

\* What the commit of update_user_package writes: the session's dirty order
\* row (flushed before the user is selected) and the user's package fields.
CompletedOrder(row, p) ==
    [row EXCEPT !.razorpay_payment_id = loc[p].request.payment_id,
                !.razorpay_signature = loc[p].request.signature,
                !.status = COMPLETED,
                !.completed_at = loc[p].completed_at]

\* Mutant: a tier already held is kept.
EntitledUser_KeepsTier(row, tier) ==
    IF row.package_tier = NoTier
    THEN [row EXCEPT !.package_tier = tier, !.purchased_at = now]
    ELSE [row EXCEPT !.purchased_at = now]

\* Mutant: the package tier is not set.
EntitledUser_TierNotSet(row, tier) ==
    [row EXCEPT !.purchased_at = now]

EntitledUser(row, tier) ==
    [row EXCEPT !.package_tier = tier, !.purchased_at = now]

\* Lines 205-208 and UserService.update_user_package: its session.commit()
\* commits the order row and the user row together. Without the user the
\* ValueError leaves the session uncommitted.
UpdateUserPackage(p) ==
    LET o == loc[p].order
        u == UserById(orders[o].user_id)
        tier == packages[orders[o].package_id].tier
    IN  /\ pc[p] = "update_user_package"
        /\ IF u = NoId
           THEN /\ Respond(p, loc[p].request, UserNotFound)
                /\ UNCHANGED <<users, orders, grants, now>>
           ELSE /\ orders' = [orders EXCEPT ![o] = CompletedOrder(@, p)]
                /\ users' = [users EXCEPT ![u] = EntitledUser(@, tier)]
                /\ grants' = [grants EXCEPT ![o] = @ + 1]
                /\ pc' = [pc EXCEPT ![p] = "create_commissions"]
                /\ ClockRead
                /\ UNCHANGED <<loc, last>>
        /\ UNCHANGED <<packages, commissions, wins, gateway, reply, returned>>

\* Mutant: the referrer chain is followed one level further.
CommissionRows_WholeChain(o) ==
    LET user == UserById(orders[o].user_id)
        package == packages[orders[o].package_id]
    IN  IF user # NoId /\ users[user].referrer_id # NoId
        THEN LET referrer == UserById(users[user].referrer_id)
                 indirect_referrer_id ==
                     IF referrer # NoId THEN users[referrer].referrer_id ELSE NoId
                 indirect == UserById(indirect_referrer_id)
                 third_id ==
                     IF indirect # NoId THEN users[indirect].referrer_id ELSE NoId
                 data == calculate_commissions(
                             package, users[user].referrer_id, indirect_referrer_id)
                         \o (IF third_id # NoId
                             THEN << [earner_id |-> third_id, level |-> 3,
                                      amount |-> package.indirect_commission] >>
                             ELSE << >>)
             IN  [i \in 1..Len(data) |->
                     [earner_id |-> data[i].earner_id, order_id |-> o,
                      level |-> data[i].level, amount |-> data[i].amount,
                      paid_out |-> FALSE]]
        ELSE << >>

\* Mutant: a level-1 row is written whether or not the buyer has a referrer.
CommissionRows_NoReferrerTest(o) ==
    LET user == UserById(orders[o].user_id)
        package == packages[orders[o].package_id]
        referrer == UserById(users[user].referrer_id)
        indirect_referrer_id ==
            IF referrer # NoId THEN users[referrer].referrer_id ELSE NoId
        data == << [earner_id |-> users[user].referrer_id, level |-> 1,
                    amount |-> package.direct_commission] >>
                \o (IF indirect_referrer_id # NoId
                    THEN << [earner_id |-> indirect_referrer_id, level |-> 2,
                             amount |-> package.indirect_commission] >>
                    ELSE << >>)
    IN  [i \in 1..Len(data) |->
            [earner_id |-> data[i].earner_id, order_id |-> o,
             level |-> data[i].level, amount |-> data[i].amount,
             paid_out |-> FALSE]]

\* Lines 211-220: the commission rows of an order, from the committed tables.
CommissionRows(o) ==
    LET user == UserById(orders[o].user_id)
        package == packages[orders[o].package_id]
    IN  IF user # NoId /\ users[user].referrer_id # NoId
        THEN LET referrer == UserById(users[user].referrer_id)
                 indirect_referrer_id ==
                     IF referrer # NoId THEN users[referrer].referrer_id ELSE NoId
                 data == calculate_commissions(
                             package, users[user].referrer_id, indirect_referrer_id)
             IN  [i \in 1..Len(data) |->
                     [earner_id |-> data[i].earner_id, order_id |-> o,
                      level |-> data[i].level, amount |-> data[i].amount,
                      paid_out |-> FALSE]]
        ELSE << >>

\* Lines 210-239: the commission rows are added and the second commit makes
\* them visible; the success response is returned.
CreateCommissions(p) ==
    LET o == loc[p].order
    IN  /\ pc[p] = "create_commissions"
        /\ commissions' = commissions \o CommissionRows(o)
        /\ wins' = [wins EXCEPT ![o] = @ + 1]
        /\ Respond(p, loc[p].request, Verified)
        /\ UNCHANGED <<users, packages, orders, now, grants, gateway, reply, returned>>

\* A commit (or a statement before it) raises, e.g. the database connection
\* is lost: the session is closed without commit, which rolls back what it
\* had not committed, and the request ends with a server error.
CommitFails(p) ==
    /\ pc[p] \in {"update_user_package", "create_commissions"}
    /\ Respond(p, loc[p].request, ServerError)
    /\ UNCHANGED <<users, packages, orders, commissions, now, grants, wins,
                     gateway, reply, returned>>

\* --------------------------------------------------------------- dashboard
\* select(User).where(User.referrer_id == user_id).all(): the ids of the
\* rows, in the order of the table.
Referrals(user_id) ==
    LET ids == [i \in 1..Len(users) |-> i]
        Referred(i) == users[i].referrer_id = user_id
    IN  SelectSeq(ids, Referred)

\* The loop of lines 270-274 and 308-312 from the k-th direct referral on.
RECURSIVE ExtendAll(_, _)
ExtendAll(direct_referrals, k) ==
    IF k > Len(direct_referrals) THEN << >>
    ELSE Referrals(direct_referrals[k]) \o ExtendAll(direct_referrals, k + 1)

\* Mutant: the referrals of the indirect referrals are listed as well.
get_user_referrals_ThirdLevel(user_id) ==
    [direct_referrals |-> Referrals(user_id),
     indirect_referrals |->
         ExtendAll(Referrals(user_id), 1)
         \o ExtendAll(ExtendAll(Referrals(user_id), 1), 1)]

\* DashboardService.get_user_referrals
get_user_referrals(user_id) ==
    [direct_referrals |-> Referrals(user_id),
     indirect_referrals |-> ExtendAll(Referrals(user_id), 1)]

\* sum(c.amount for c in rows), from the k-th row on.
RECURSIVE SumAmounts(_, _)
SumAmounts(rows, k) ==
    IF k > Len(rows) THEN 0 ELSE rows[k].amount + SumAmounts(rows, k + 1)

\* DashboardService.get_user_commissions
get_user_commissions(user_id) ==
    LET Earned(row) == row.earner_id = user_id
    IN  SelectSeq(commissions, Earned)

\* Mutant: every row of the user counts as paid out.
get_user_stats_AllPaidOut(user_id) ==
    LET rows == get_user_commissions(user_id)
        Level1(row) == row.level = 1
        Level2(row) == row.level = 2
        total_earned == SumAmounts(rows, 1)
        total_paid_out == SumAmounts(rows, 1)
        direct_referrals == Referrals(user_id)
        indirect_referrals == ExtendAll(direct_referrals, 1)
    IN  IF UserById(user_id) = NoId THEN [error |-> UserNotFound]
        ELSE [user |-> user_id,
              earnings |->
                  [total_earned |-> total_earned,
                   total_paid_out |-> total_paid_out,
                   available_balance |-> total_earned - total_paid_out,
                   direct_earnings |-> SumAmounts(SelectSeq(rows, Level1), 1),
                   indirect_earnings |-> SumAmounts(SelectSeq(rows, Level2), 1),
                   total_commissions |-> Len(rows)],
              referrals |->
                  [direct_count |-> Len(direct_referrals),
                   indirect_count |-> Len(indirect_referrals),
                   total_count |-> Len(direct_referrals)
                                       + Len(indirect_referrals)]]

\* DashboardService.get_user_stats: the dictionary returned, or the
\* ValueError.
get_user_stats(user_id) ==
    LET rows == get_user_commissions(user_id)
        PaidOut(row) == row.paid_out
        Level1(row) == row.level = 1
        Level2(row) == row.level = 2
        total_earned == SumAmounts(rows, 1)
        total_paid_out == SumAmounts(SelectSeq(rows, PaidOut), 1)
        direct_referrals == Referrals(user_id)
        indirect_referrals == ExtendAll(direct_referrals, 1)
    IN  IF UserById(user_id) = NoId THEN [error |-> UserNotFound]
        ELSE [user |-> user_id,
              earnings |->
                  [total_earned |-> total_earned,
                   total_paid_out |-> total_paid_out,
                   available_balance |-> total_earned - total_paid_out,
                   direct_earnings |-> SumAmounts(SelectSeq(rows, Level1), 1),
                   indirect_earnings |-> SumAmounts(SelectSeq(rows, Level2), 1),
                   total_commissions |-> Len(rows)],
              referrals |->
                  [direct_count |-> Len(direct_referrals),
                   indirect_count |-> Len(indirect_referrals),
                   total_count |-> Len(direct_referrals)
                                       + Len(indirect_referrals)]]

\* Commission.paid_out is only read by this code (its default is False):
\* the payout of a commission is recorded in the table from outside.
PayOut(i) ==
    /\ ~commissions[i].paid_out
    /\ commissions' = [commissions EXCEPT ![i].paid_out = TRUE]
    /\ UNCHANGED <<users, packages, orders, now, pc, loc, last, grants, wins,
                   gateway, reply, returned>>

\* The dashboard routes: the service function is called for the
\* authenticated user and its result is returned; the session is closed
\* without a commit.
GetUserStats(user_id) ==
    /\ returned' = Return("get_user_stats", <<user_id>>,
                          get_user_stats(user_id))
    /\ UNCHANGED <<users, packages, orders, commissions, now, pc, loc,
                   last, grants, wins, gateway, reply>>

\* Mutant: reading the commissions marks them paid out.
GetUserCommissions_PaysOut(user_id) ==
    /\ returned' = Return("get_user_commissions", <<user_id>>,
                          get_user_commissions(user_id))
    /\ commissions' = [i \in 1..Len(commissions) |->
                          IF commissions[i].earner_id = user_id
                          THEN [commissions[i] EXCEPT !.paid_out = TRUE]
                          ELSE commissions[i]]
    /\ UNCHANGED <<users, packages, orders, now, pc, loc,
                   last, grants, wins, gateway, reply>>

GetUserCommissions(user_id) ==
    /\ returned' = Return("get_user_commissions", <<user_id>>,
                          get_user_commissions(user_id))
    /\ UNCHANGED <<users, packages, orders, commissions, now, pc, loc,
                   last, grants, wins, gateway, reply>>

GetUserReferrals(user_id) ==
    /\ returned' = Return("get_user_referrals", <<user_id>>,
                          get_user_referrals(user_id))
    /\ UNCHANGED <<users, packages, orders, commissions, now, pc, loc,
                   last, grants, wins, gateway, reply>>

\* ----------------------------------------------------------------- startup
\* lifespan: create_default_packages runs at every start of the application,
\* on the package table it finds.
CreateDefaultPackages ==
    /\ packages' = create_default_packages(packages)
    /\ UNCHANGED <<users, orders, commissions, now, pc, loc, last, grants,
                   wins, gateway, reply, returned>>

\* ------------------------------------------- functions called by themselves
\* Package.gst_amount and Package.final_price of a package with the price.
Price(base_price, gst_rate) ==
    LET package == [base_price |-> base_price, gst_rate |-> gst_rate]
    IN  /\ returned' = Return("final_price", <<base_price, gst_rate>>,
                              [gst_amount |-> gst_amount(package),
                               final_price |-> final_price(package)])
        /\ UNCHANGED <<users, packages, orders, commissions, now, pc, loc,
                       last, grants, wins, gateway, reply>>

\* RazorpayService.verify_payment_signature of the three arguments.
VerifyPaymentSignature(order_id, payment_id, signature) ==
    /\ returned' = Return("verify_payment_signature",
                          <<order_id, payment_id, signature>>,
                          verify_payment_signature(order_id, payment_id,
                                                   signature))
    /\ UNCHANGED <<users, packages, orders, commissions, now, pc, loc,
                   last, grants, wins, gateway, reply>>

\* -------------------------------------------------------------------- Next
\* The inputs of the requests.
Emails == 1..(Len(users) + 1)
RemoteIds == 1..(Len(orders) + 1)
Signatures(maxOrders) ==
    {Mac(o, q) : o \in 1..(maxOrders + 1), q \in PaymentIds} \cup {Forged}

\* The referrer ids to register with: any id up to maxUsers (of a user, of
\* the new user itself, of a user registered later or of no user at all), or
\* only None and the ids of registered users.
ReferrerIds(maxUsers, registered) ==
    IF registered THEN 0..Len(users) ELSE 0..maxUsers

\* A new verify-payment request goes to the first worker that is free (the
\* workers are alike).
Takes(workers, p) ==
    \A w \in workers : w < p => pc[w] # "idle"

\* The requests of the system with the given workers serving verify-payment,
\* at most maxUsers users and maxOrders orders and the given kind of referrer
\* ids.
Step(workers, maxUsers, registered, maxOrders) ==
    \/ \E e \in Emails, r \in ReferrerIds(maxUsers, registered) :
          Len(users) < maxUsers /\ Register(e, r)
    \/ \E e \in Emails : RegisterDuplicate(e)
    \/ \E u \in 1..Len(users), t \in PackageTier :
          Len(orders) < maxOrders /\ CreateOrder(u, t)
    \/ \E p \in workers, o \in RemoteIds, q \in PaymentIds,
          s \in Signatures(maxOrders) :
          Takes(workers, p) /\ VerifyInvalidSignature(p, o, q, s)
    \/ \E p \in workers, o \in RemoteIds, q \in PaymentIds,
          s \in Signatures(maxOrders) :
          Takes(workers, p) /\ VerifyOrderNotFound(p, o, q, s)
    \/ \E p \in workers, o \in RemoteIds, q \in PaymentIds,
          s \in Signatures(maxOrders) :
          Takes(workers, p) /\ VerifyAlreadyCompleted(p, o, q, s)
    \/ \E p \in workers, o \in RemoteIds, q \in PaymentIds,
          s \in Signatures(maxOrders) :
          Takes(workers, p) /\ VerifyLoadOrder(p, o, q, s)
    \/ \E p \in workers :
          \/ UpdateUserPackage(p)
          \/ CreateCommissions(p)
          \/ CommitFails(p)

\* Concurrent requests: every worker has its own session. register stores
\* whatever referrer id it is given. (The gateway makes every order asked
\* for.)
Next == Step(Procs, MaxUsers, FALSE, MaxOrders)

Spec == Init /\ [][Next]_vars

\* One worker: a request starts when the one before has been answered. Users
\* register without referrer or with a registered user as referrer.
NextSeq == Step({1}, SeqUsers, TRUE, MaxOrders)

SpecSeq == Init /\ [][NextSeq]_vars

\* One worker and several orders.
NextOrders == Step({1}, OrdersUsers, TRUE, OrdersOrders)

SpecOrders == Init /\ [][NextOrders]_vars

\* One worker and several orders; commissions are paid out.
NextDashboard ==
    \/ NextOrders
    \/ \E i \in 1..Len(commissions) : PayOut(i)

SpecDashboard == Init /\ [][NextDashboard]_vars

\* One worker and several orders; the users read their dashboards.
NextReads ==
    \/ NextOrders
    \/ \E u \in 1..Len(users) : GetUserStats(u)
    \/ \E u \in 1..Len(users) : GetUserCommissions(u)
    \/ \E u \in 1..Len(users) : GetUserReferrals(u)

SpecReads == Init /\ [][NextReads]_vars

\* Registrations only, with any referrer id.
NextReferrals ==
    \E e \in Emails, r \in 0..ReferralUsers :
        /\ Len(users) < ReferralUsers \/ UserByEmail(e) # NoId
        /\ CreateUser(e, r)

SpecReferrals == Init /\ [][NextReferrals]_vars

\* The package tables an application may find at its start: at most one row
\* per tier (the column is unique), in any order, each row as the seeding
\* writes it or with another price.
Repriced(data) == [data EXCEPT !.base_price = @ + 100]

PackageRows ==
    {packages_data[k] : k \in 1..Len(packages_data)}
    \cup {Repriced(packages_data[k]) : k \in 1..Len(packages_data)}

PackageTables ==
    {table \in UNION {[1..n -> PackageRows] : n \in 0..Len(packages_data)} :
        \A i, j \in 1..Len(table) : table[i].tier = table[j].tier => i = j}

InitCatalog ==
    /\ users = << >>
    /\ packages \in PackageTables
    /\ orders = << >>
    /\ commissions = << >>
    /\ now = 1
    /\ pc = [p \in Procs |-> "idle"]
    /\ loc = [p \in Procs |-> NoLoc]
    /\ last = NoResponse
    /\ grants = << >>
    /\ wins = << >>
    /\ gateway = [attempts |-> 0, orders |-> 0]
    /\ reply = NoReply
    /\ returned = NoReturn

\* Orders are created on any package table; the application may restart.
NextCatalog ==
    \/ \E e \in Emails :
          Len(users) < CatalogUsers /\ Register(e, NoId)
    \/ \E u \in 1..Len(users), t \in PackageTier :
          /\ Len(orders) < CatalogOrders
          /\ gateway.attempts < MaxAttempts
          /\ CreateOrder(u, t)
    \/ \E u \in 1..Len(users), t \in PackageTier :
          CreateOrderPackageNotFound(u, t)
    \/ \E u \in 1..Len(users), t \in PackageTier :
          gateway.attempts < MaxAttempts /\ CreateOrderGatewayFails(u, t)
    \/ CreateDefaultPackages

SpecCatalog == InitCatalog /\ [][NextCatalog]_vars

\* The functions are called with any arguments.
BasePrices ==
    0..MaxBasePrice
    \cup {packages_data[k].base_price : k \in 1..Len(packages_data)}

GstRates == {packages_data[k].gst_rate : k \in 1..Len(packages_data)}

OrderIds == 1..MaxOrderIds
AllPaymentIds == {"pay_a", "pay_b"}
AllSignatures ==
    {Mac(o, q) : o \in OrderIds, q \in AllPaymentIds}
    \cup {Forged, NoSignature}

NextFunctions ==
    \/ \E b \in BasePrices, r \in GstRates : Price(b, r)
    \/ \E o \in OrderIds, q \in AllPaymentIds, s \in AllSignatures :
          VerifyPaymentSignature(o, q, s)

SpecFunctions == Init /\ [][NextFunctions]_vars

\* ------------------------------------------------------------------ claims
\* The commission rows of an order, in the order of their insertion.
RowsOf(o) ==
    LET OfOrder(row) == row.order_id = o IN SelectSeq(commissions, OfOrder)

CountRows(o, level) ==
    Cardinality({i \in 1..Len(commissions) :
        commissions[i].order_id = o /\ commissions[i].level = level})

\* The request carries the MAC of its own order id and payment id.
Authentic(request) ==
    request.signature = <<request.order_id, request.payment_id>>

\* The order a request names, or NoId.
Target(request) ==
    IF \E o \in 1..Len(orders) : orders[o].razorpay_order_id = request.order_id
    THEN CHOOSE o \in 1..Len(orders) :
             orders[o].razorpay_order_id = request.order_id
    ELSE NoId

\* A request got its response in one step: it failed before it wrote anything
\* to its session (no worker changes its place).
AnsweredAtOnce == pc' = pc /\ last' # last

\* C1: with requests served one after the other, a confirmation with valid
\* arguments for an order that is already completed is answered "Order
\* already completed" and changes no table; no order is ever granted, paid
\* out as success or given a commission row of a level more than once.
C1_SequentialIdempotency ==
    [][ /\ \A o \in 1..Len(orders') :
              /\ grants'[o] <= 1
              /\ wins'[o] <= 1
              /\ \A level \in {1, 2} : CountRows(o, level)' <= 1
        /\ ( /\ AnsweredAtOnce
             /\ Authentic(last'.request)
             /\ Target(last'.request) # NoId
             /\ orders[Target(last'.request)].status = COMPLETED )
           => /\ last'.message = AlreadyCompleted
              /\ UNCHANGED <<users, packages, orders, commissions, grants, wins>>
      ]_vars

\* The first call settled the order, with commission rows, and the second
\* call was rejected.
C1_Witness ==
    /\ last.message = AlreadyCompleted
    /\ Target(last.request) # NoId
    /\ wins[Target(last.request)] = 1
    /\ RowsOf(Target(last.request)) # << >>
    /\ \A p \in Procs : pc[p] = "idle"

\* C2: whatever the interleaving of concurrent confirmations of one order,
\* there is at most one commission row per (order, level) and the buyer's
\* entitlement is granted at most once for the order.
C2_AtMostOnceSettlement ==
    \A o \in 1..Len(orders) :
        /\ grants[o] <= 1
        /\ \A level \in {1, 2} : CountRows(o, level) <= 1

\* C3: of the concurrent confirmations of one order exactly one returns the
\* success result; the others do not.
C3_OneWinner ==
    \A o \in 1..Len(orders) : wins[o] <= 1

\* C4: when a confirmation has failed after its signature verified (a failed
\* buyer lookup, a failed commit), the order is still pending with no payment
\* id, it has no commission row, and a buyer without a completed order has no
\* package tier and no purchase time. (Requests served one after the other.)
C4_FailureLeavesPending ==
    ( /\ \A p \in Procs : pc[p] = "idle"
      /\ last.message \in {ServerError, UserNotFound} )
    => LET o == Target(last.request)
           buyer == orders[o].user_id
       IN  /\ orders[o].status = PENDING
           /\ orders[o].razorpay_payment_id = NoPayment
           /\ orders[o].completed_at = NoTime
           /\ RowsOf(o) = << >>
           /\ (\A k \in 1..Len(orders) :
                   orders[k].user_id = buyer => orders[k].status = PENDING)
              => /\ users[buyer].package_tier = NoTier
                 /\ users[buyer].purchased_at = NoTime

\* C5: in every committed state a user has a package tier if and only if
\* one of the user's orders is completed.
C5_EntitlementIffCompleted ==
    \A u \in 1..Len(users) :
        (users[u].package_tier # NoTier)
        <=> (\E o \in 1..Len(orders) :
                orders[o].user_id = u /\ orders[o].status = COMPLETED)

C5_Witness ==
    \E o \in 1..Len(orders) :
        /\ orders[o].status = COMPLETED
        /\ users[orders[o].user_id].package_tier
               = packages[orders[o].package_id].tier
        /\ \E u \in 1..Len(users) : users[u].package_tier = NoTier

\* C6: a confirmation whose signature does not verify is answered "Invalid
\* payment signature" and changes no order, no user and no commission row.
C6_InvalidSignatureNoChange ==
    [][ (last' # last /\ ~Authentic(last'.request))
        => /\ last'.message = InvalidSignature
           /\ UNCHANGED <<users, packages, orders, commissions, grants, wins>>
      ]_vars

\* A pending order was the target of a rejected signature.
C6_Witness ==
    /\ last.message = InvalidSignature
    /\ Target(last.request) # NoId
    /\ orders[Target(last.request)].status = PENDING

\* C7: a completed order stays as it is: its status, payment id, signature
\* and completion time never change and the row is never deleted.
C7_CompletedIsTerminal ==
    [][ \A o \in 1..Len(orders) :
            orders[o].status = COMPLETED
            => /\ o <= Len(orders')
               /\ orders'[o] = orders[o]
      ]_vars

\* The referrer of a user, when that is a user: else NoId.
ReferrerOf(u) ==
    IF u \in 1..Len(users) /\ users[u].referrer_id \in 1..Len(users)
    THEN users[u].referrer_id ELSE NoId

EarnerAndLevel(row) == <<row.earner_id, row.level>>

\* C8: for a buyer with the referrer chain buyer -> A -> B -> C, the settled
\* order has exactly two commission rows, level 1 for A and level 2 for B,
\* and none for C. (Requests served one after the other.)
C8_DepthCap ==
    \A o \in 1..Len(orders) :
        LET a == ReferrerOf(orders[o].user_id)
            b == ReferrerOf(a)
            c == ReferrerOf(b)
            rows == RowsOf(o)
        IN  (wins[o] >= 1 /\ c # NoId)
            => /\ Len(rows) = 2
               /\ EarnerAndLevel(rows[1]) = <<a, 1>>
               /\ EarnerAndLevel(rows[2]) = <<b, 2>>
               /\ \A i \in 1..Len(rows) : rows[i].earner_id # c

C8_Witness ==
    \E o \in 1..Len(orders) :
        /\ wins[o] >= 1
        /\ ReferrerOf(ReferrerOf(ReferrerOf(orders[o].user_id))) # NoId
        /\ Len(RowsOf(o)) = 2

\* C9: the order of a buyer without referrer, once a confirmation of it has
\* succeeded, is completed, the buyer holds a package tier with a purchase
\* time, and the order has no commission row.
C9_NoReferrerNoCommission ==
    \A o \in 1..Len(orders) :
        (wins[o] >= 1 /\ users[orders[o].user_id].referrer_id = NoId)
        => /\ orders[o].status = COMPLETED
           /\ users[orders[o].user_id].package_tier # NoTier
           /\ users[orders[o].user_id].purchased_at # NoTime
           /\ RowsOf(o) = << >>

C9_Witness ==
    \E o \in 1..Len(orders) :
        /\ wins[o] >= 1
        /\ users[orders[o].user_id].referrer_id = NoId
        /\ orders[o].status = COMPLETED

\* The rows the claim C10 expects of settling order o.
ExpectedRows(o) ==
    LET buyer == users[orders[o].user_id]
        package == packages[orders[o].package_id]
        level1 == IF buyer.referrer_id # NoId
                  THEN << [earner_id |-> buyer.referrer_id, order_id |-> o,
                           level |-> 1, amount |-> package.direct_commission,
                           paid_out |-> FALSE] >>
                  ELSE << >>
        level2 == IF /\ buyer.referrer_id \in 1..Len(users)
                     /\ users[buyer.referrer_id].referrer_id # NoId
                  THEN << [earner_id |-> users[buyer.referrer_id].referrer_id,
                           order_id |-> o, level |-> 2,
                           amount |-> package.indirect_commission,
                           paid_out |-> FALSE] >>
                  ELSE << >>
    IN  level1 \o level2

\* C10: the rows a successful confirmation of order o adds are rows of o:
\* the level-1 row of the buyer's referrer_id with the package's
\* direct_commission and, exactly when that referrer is a user with a
\* referrer_id, the level-2 row of that referrer_id with the package's
\* indirect_commission; the amount charged plays no part.
C10_CommissionAttribution ==
    [][ \A p \in Procs :
            (pc[p] = "create_commissions" /\ pc'[p] = "idle"
                 /\ last'.message = Verified)
            => commissions' = commissions \o ExpectedRows(loc[p].order)
      ]_vars

C10_Witness ==
    \E o \in 1..Len(orders) :
        /\ wins[o] >= 1
        /\ \E i, j \in 1..Len(commissions) :
              /\ commissions[i].order_id = o /\ commissions[i].level = 1
              /\ commissions[j].order_id = o /\ commissions[j].level = 2
              /\ commissions[i].amount # commissions[j].amount
              /\ commissions[i].amount # orders[o].amount

\* C11: a successful create_order adds exactly one order row and changes no
\* other: the new row is pending, of the calling user, of the package of the
\* requested tier, with the remote order id the gateway returned (an id no
\* other row has) and the package's final_price as amount; the rows there
\* were, the users and the commissions stay as they are. A call for a user
\* and tier that already have a pending order adds a row all the same.
C11_CreateOrderAddsOneRow ==
    [][ (reply' # reply /\ reply'.message = Created)
        => LET new == orders'[Len(orders')]
           IN  /\ Len(orders') = Len(orders) + 1
               /\ \A o \in 1..Len(orders) : orders'[o] = orders[o]
               /\ new.status = PENDING
               /\ new.user_id = reply'.user_id
               /\ packages[new.package_id].tier = reply'.package_tier
               /\ new.razorpay_order_id = reply'.order_id
               /\ new.razorpay_order_id = gateway'.orders
               /\ \A o \in 1..Len(orders) :
                      orders[o].razorpay_order_id # new.razorpay_order_id
               /\ new.amount = packages[new.package_id].base_price
                                   + gst_amount(packages[new.package_id])
               /\ new.amount = reply'.amount
               /\ UNCHANGED <<users, packages, commissions>>
      ]_vars

\* Two calls of one user for one tier have left two pending orders.
C11_Witness ==
    /\ Len(orders) = 2
    /\ orders[1].user_id = orders[2].user_id
    /\ orders[1].package_id = orders[2].package_id
    /\ orders[1].status = PENDING /\ orders[2].status = PENDING
    /\ orders[1].razorpay_order_id # orders[2].razorpay_order_id
    /\ reply.message = Created

\* C12: the tax of a package is floor(base_price * gst_rate / 100) and its
\* final price is base_price plus the tax, for the three seeded packages and
\* for every base price of the range at the rate of 18 percent; base price
\* 254237 has tax 45762 and final price 299999.
C12_PricingFormula ==
    /\ \A k \in 1..Len(packages) :
          LET tax == (packages[k].base_price * packages[k].gst_rate) \div 100
          IN  /\ gst_amount(packages[k]) = tax
              /\ final_price(packages[k]) = packages[k].base_price + tax
    /\ returned.function = "final_price"
       => LET base_price == returned.args[1]
              gst_rate == returned.args[2]
              tax == (base_price * gst_rate) \div 100
          IN  /\ gst_rate = 18
              /\ returned.value.gst_amount = tax
              /\ returned.value.final_price = base_price + tax
              /\ base_price = 254237
                 => /\ returned.value.gst_amount = 45762
                    /\ returned.value.final_price = 299999

\* The silver price has been computed, with a tax that is not a whole
\* number of units before it is cut off.
C12_Witness ==
    /\ returned.function = "final_price"
    /\ returned.args = <<254237, 18>>
    /\ (254237 * 18) % 100 # 0
    /\ returned.value = [gst_amount |-> 45762, final_price |-> 299999]

\* C13: every user's referrer_id is absent or the id of a user that was
\* registered before (ids are given in the order of registration), so the
\* referrer relation has no cycle and no user is the own referrer.
C13_ReferrerForest ==
    \A u \in 1..Len(users) : users[u].referrer_id \in 0..(u - 1)

\* The sum of the amounts of the first k commission rows that are of the
\* user and, if asked, paid out.
RECURSIVE AmountUpTo(_, _, _)
AmountUpTo(u, k, paid_only) ==
    IF k = 0 THEN 0
    ELSE AmountUpTo(u, k - 1, paid_only)
         + (IF /\ commissions[k].earner_id = u
               /\ (paid_only => commissions[k].paid_out)
            THEN commissions[k].amount ELSE 0)

\* C14: for every user, get_user_stats returns available_balance =
\* total_earned - total_paid_out and total_count = direct_count +
\* indirect_count, total_earned being the sum of the user's commission rows
\* and total_paid_out the sum of those of them that are paid out.
C14_DashboardTotals ==
    \A u \in 1..Len(users) :
        LET stats == get_user_stats(u)
        IN  /\ stats.earnings.available_balance
                   = stats.earnings.total_earned - stats.earnings.total_paid_out
            /\ stats.earnings.total_earned
                   = AmountUpTo(u, Len(commissions), FALSE)
            /\ stats.earnings.total_paid_out
                   = AmountUpTo(u, Len(commissions), TRUE)
            /\ stats.referrals.total_count
                   = stats.referrals.direct_count + stats.referrals.indirect_count

\* A user has earned two commissions of which one is paid out, and has a
\* referral.
C14_Witness ==
    \E u \in 1..Len(users) :
        LET stats == get_user_stats(u)
        IN  /\ stats.earnings.total_commissions = 2
            /\ stats.earnings.total_paid_out > 0
            /\ stats.earnings.available_balance > 0
            /\ stats.referrals.total_count > 0

\* The elements of a list.
Elements(list) == {list[k] : k \in 1..Len(list)}

\* C15: for every user u, get_user_referrals lists as direct referrals
\* exactly the users whose referrer_id is u and as indirect referrals
\* exactly the users whose referrer is one of these, every user once (so no
\* user of a third level unless it is of the second as well), and the
\* direct_count and indirect_count of get_user_stats are the lengths of the
\* two lists.
C15_ReferralSets ==
    \A u \in 1..Len(users) :
        LET referrals == get_user_referrals(u)
            direct == {v \in 1..Len(users) : users[v].referrer_id = u}
            indirect == {w \in 1..Len(users) : users[w].referrer_id \in direct}
            stats == get_user_stats(u)
        IN  /\ Elements(referrals.direct_referrals) = direct
            /\ Len(referrals.direct_referrals) = Cardinality(direct)
            /\ Elements(referrals.indirect_referrals) = indirect
            /\ Len(referrals.indirect_referrals) = Cardinality(indirect)
            /\ stats.referrals.direct_count = Len(referrals.direct_referrals)
            /\ stats.referrals.indirect_count
                   = Len(referrals.indirect_referrals)

\* A chain of three referrals below a user: the second is listed as direct,
\* the third as indirect and the fourth is not listed.
C15_Witness ==
    /\ Len(users) = 4
    /\ users[4].referrer_id = 3
    /\ users[3].referrer_id = 2
    /\ users[2].referrer_id = 1
    /\ users[1].referrer_id = NoId
    /\ get_user_referrals(1) =
           [direct_referrals |-> <<2>>, indirect_referrals |-> <<3>>]
    /\ get_user_stats(1).referrals.total_count = 2

\* What C16 expects of create_default_packages on a table.
SeedsWell(table) ==
    LET once == create_default_packages(table)
        added == {once[k] : k \in (Len(table) + 1)..Len(once)}
    IN  /\ Len(once) >= Len(table)
        /\ \A k \in 1..Len(table) : once[k] = table[k]
        /\ \A tier \in PackageTier :
              /\ (\E row \in added : row.tier = tier)
                     <=> ~(\E k \in 1..Len(table) : table[k].tier = tier)
              /\ Cardinality({k \in 1..Len(once) : once[k].tier = tier}) = 1
        /\ added \subseteq Elements(packages_data)
        /\ create_default_packages(once) = once

\* C16: on any package table, create_default_packages keeps every row there
\* is as it is, adds the seeded row of a tier if and only if the table has
\* no row of that tier, leaves exactly one row per tier, and applied to its
\* own result changes nothing; the package table changes in no other way.
C16_SeedingIdempotent ==
    [][ /\ SeedsWell(packages)
        /\ SeedsWell(packages')
        /\ packages' # packages
           => packages' = create_default_packages(packages)
      ]_vars

\* A start of the application has completed a table that lacked a tier (a
\* create_order for the tier had failed) and held a row with another price.
C16_Witness ==
    /\ reply.message = PackageNotFound
    /\ PackageByTier(reply.package_tier) # NoId
    /\ packages[PackageByTier(reply.package_tier)] \in Elements(packages_data)
    /\ \E k \in 1..Len(packages) : packages[k] \notin Elements(packages_data)
    /\ create_default_packages(packages) = packages

\* C17: verify_payment_signature returns true only for the signature that is
\* the MAC of its order id and its payment id; an accepted triple with
\* another order id, another payment id or another signature is rejected.
C17_SignatureRejection ==
    returned.function = "verify_payment_signature"
    => LET order_id == returned.args[1]
           payment_id == returned.args[2]
           signature == returned.args[3]
       IN  /\ returned.value <=> signature = <<order_id, payment_id>>
           /\ returned.value
              => /\ \A o \in OrderIds \ {order_id} :
                        ~verify_payment_signature(o, payment_id, signature)
                 /\ \A q \in AllPaymentIds \ {payment_id} :
                        ~verify_payment_signature(order_id, q, signature)
                 /\ \A s \in AllSignatures \ {signature} :
                        ~verify_payment_signature(order_id, payment_id, s)

\* A triple has been accepted, and there are other order ids, payment ids
\* and signatures to put in its place.
C17_Witness ==
    /\ returned.function = "verify_payment_signature"
    /\ returned.value = TRUE
    /\ OrderIds \ {returned.args[1]} # {}
    /\ AllPaymentIds \ {returned.args[2]} # {}
    /\ \E s \in AllSignatures \ {returned.args[3]} : s # NoSignature /\ s # Forged

\* C18: create_order for a tier without package row raises "Package not
\* found" (and raises it in no other case) without a call of the gateway:
\* no remote order is made, no order row is added, no table changes.
C18_PackageNotFound ==
    [][ /\ (reply' # reply /\ PackageByTier(reply'.package_tier) = NoId)
           => /\ reply'.message = PackageNotFound
              /\ gateway' = gateway
              /\ UNCHANGED <<users, packages, orders, commissions, grants, wins>>
        /\ (reply' # reply /\ reply'.message = PackageNotFound)
           => PackageByTier(reply'.package_tier) = NoId
      ]_vars

\* The call failed for a missing tier after an order of another tier had
\* been created.
C18_Witness ==
    /\ reply.message = PackageNotFound
    /\ PackageByTier(reply.package_tier) = NoId
    /\ Len(orders) = 1
    /\ gateway = [attempts |-> 1, orders |-> 1]

\* C19: when the gateway's order creation fails, create_order passes the
\* failure on after that one call of the gateway, and changes no order, user
\* or commission row.
C19_GatewayFailure ==
    [][ /\ (gateway'.attempts > gateway.attempts
                /\ gateway'.orders = gateway.orders)
           => /\ reply'.message = GatewayError
              /\ gateway'.attempts = gateway.attempts + 1
              /\ UNCHANGED <<users, packages, orders, commissions, grants, wins>>
        /\ (reply' # reply /\ reply'.message = GatewayError)
           => /\ gateway'.attempts = gateway.attempts + 1
              /\ gateway'.orders = gateway.orders
              /\ UNCHANGED <<users, packages, orders, commissions, grants, wins>>
      ]_vars

\* The gateway failed on a call that followed a successful one.
C19_Witness ==
    /\ reply.message = GatewayError
    /\ Len(orders) = 1
    /\ gateway = [attempts |-> 2, orders |-> 1]

\* C20: a confirmation that names no order's remote id is answered "Order
\* not found" when its signature verifies and "Invalid payment signature"
\* when it does not, and changes no table; "Order not found" is the answer
\* in no other case.
C20_UnknownOrder ==
    [][ /\ (last' # last /\ Target(last'.request) = NoId)
           => /\ Authentic(last'.request)
                 => last'.message = OrderNotFound
              /\ ~Authentic(last'.request)
                 => last'.message = InvalidSignature
              /\ UNCHANGED <<users, packages, orders, commissions, grants, wins>>
        /\ (last' # last /\ last'.message = OrderNotFound)
           => /\ Authentic(last'.request)
              /\ Target(last'.request) = NoId
      ]_vars

\* A confirmation with a valid signature named no order while a pending
\* order was there; the order is still pending.
C20_Witness ==
    /\ last.message = OrderNotFound
    /\ Authentic(last.request)
    /\ Target(last.request) = NoId
    /\ Len(orders) = 1
    /\ orders[1].status = PENDING

\* C21: whatever calls have been made, failed ones and concurrent ones
\* included, every order is pending or completed: none is failed.
C21_NeverFailed ==
    \A o \in 1..Len(orders) : orders[o].status \in {PENDING, COMPLETED}

\* A confirmation of an order has failed after its signature verified; the
\* order is there, and pending.
C21_Witness ==
    /\ last.message = ServerError
    /\ Target(last.request) # NoId
    /\ orders[Target(last.request)].status = PENDING
    /\ \A p \in Procs : pc[p] = "idle"

\* C22: a commission row, once it exists, is never changed and never
\* deleted by a registration, a create_order, a confirmation or a dashboard
\* read, and a dashboard read changes no table.
C22_CommissionsImmutable ==
    [][ /\ Len(commissions') >= Len(commissions)
        /\ \A i \in 1..Len(commissions) : commissions'[i] = commissions[i]
        /\ (returned' # returned)
           => UNCHANGED <<users, packages, orders, commissions, grants, wins>>
      ]_vars

\* A user has read the commissions earned, of two orders, and the rows are
\* as the settlements wrote them.
C22_Witness ==
    /\ returned.function = "get_user_commissions"
    /\ Len(returned.value) = 2
    /\ returned.value = commissions
    /\ commissions[1].order_id # commissions[2].order_id
    /\ \A i \in 1..Len(commissions) : ~commissions[i].paid_out

\* C23: (requests served one after the other) a confirmation rejected for
\* its signature changes nothing that a later call reads: no table, no
\* session, not the clock; a confirmation with the valid signature of a
\* pending order is never turned away; and when it succeeds the order is
\* completed with the payment of this call, the buyer holds the package's
\* tier and the rows added are those the tables prescribe.
C23_RejectionDoesNotBlock ==
    [][ /\ (last' # last /\ last'.message = InvalidSignature)
           => UNCHANGED <<users, packages, orders, commissions, now, pc, loc,
                          grants, wins, gateway>>
        /\ ~ ( /\ AnsweredAtOnce
               /\ Authentic(last'.request)
               /\ Target(last'.request) # NoId
               /\ orders[Target(last'.request)].status = PENDING )
        /\ (last' # last /\ last'.message = Verified)
           => LET o == Target(last'.request)
              IN  /\ orders'[o].status = COMPLETED
                  /\ orders'[o].razorpay_payment_id = last'.request.payment_id
                  /\ users'[orders[o].user_id].package_tier
                         = packages[orders[o].package_id].tier
                  /\ commissions' = commissions \o ExpectedRows(o)
                  /\ wins'[o] = 1
      ]_vars

\* The latest answer was the rejection of a signature for an order; the
\* valid confirmation that followed has completed that order and entitled
\* its buyer.
C23_Witness ==
    /\ last.message = InvalidSignature
    /\ Target(last.request) # NoId
    /\ pc[1] = "create_commissions"
    /\ loc[1].order = Target(last.request)
    /\ orders[loc[1].order].status = COMPLETED
    /\ users[orders[loc[1].order].user_id].package_tier # NoTier
    /\ users[orders[loc[1].order].user_id].referrer_id # NoId

\* C24: create_user with an email that a user has raises "User with this
\* email already exists" and leaves the user table as it is; with any other
\* email it adds one user with that email; so no two users share an email.
C24_EmailUnique ==
    [][ /\ (returned' # returned /\ returned'.function = "create_user")
           => IF \E u \in 1..Len(users) : users[u].email = returned'.args[1]
              THEN /\ returned'.value.raised = EmailExists
                   /\ users' = users
              ELSE /\ returned'.value.raised = "none"
                   /\ returned'.value.id = Len(users) + 1
                   /\ Len(users') = Len(users) + 1
                   /\ users'[Len(users')].email = returned'.args[1]
                   /\ \A u \in 1..Len(users) : users'[u] = users[u]
        /\ \A u, v \in 1..Len(users') :
              users'[u].email = users'[v].email => u = v
      ]_vars

\* A registration with the email of the first of several users has been
\* refused.
C24_Witness ==
    /\ returned.function = "create_user"
    /\ returned.value.raised = EmailExists
    /\ Len(users) >= 2
    /\ users[1].email = returned.args[1]
    /\ \A u \in 2..Len(users) : users[u].email # returned.args[1]

\* C25: in every committed state, a completed order whose buyer has a
\* referrer has its level-1 commission row, and its level-2 row when that
\* referrer has a referrer.
C25_VisibleTogether ==
    \A o \in 1..Len(orders) :
        LET a == ReferrerOf(orders[o].user_id)
            b == ReferrerOf(a)
        IN  orders[o].status = COMPLETED
            => /\ a # NoId => CountRows(o, 1) >= 1
               /\ b # NoId => CountRows(o, 2) >= 1

\* C26: every commission row is of an order that exists and is completed,
\* its level is 1 or 2, and an order with a level-2 row has a level-1 row.
C26_CommissionWellFormed ==
    \A i \in 1..Len(commissions) :
        /\ commissions[i].order_id \in 1..Len(orders)
        /\ orders[commissions[i].order_id].status = COMPLETED
        /\ commissions[i].level \in {1, 2}
        /\ commissions[i].level = 2
           => CountRows(commissions[i].order_id, 1) >= 1

\* An order has been settled with a row of each level.
C26_Witness ==
    /\ Len(commissions) = 2
    /\ commissions[1].level = 1
    /\ commissions[2].level = 2
    /\ commissions[1].order_id = commissions[2].order_id
    /\ orders[commissions[1].order_id].status = COMPLETED

\* C27: no commission row has the buyer of its order as earner, every
\* earner is a user, and the level-1 and the level-2 earner of an order are
\* different users.
C27_NoSelfEarnedCommission ==
    \A i \in 1..Len(commissions) :
        /\ commissions[i].earner_id # orders[commissions[i].order_id].user_id
        /\ commissions[i].earner_id \in 1..Len(users)
        /\ \A j \in 1..Len(commissions) :
              ( /\ commissions[j].order_id = commissions[i].order_id
                /\ commissions[j].level # commissions[i].level )
              => commissions[j].earner_id # commissions[i].earner_id

\* C28: the commit that completes order o gives the buyer of o (the order's
\* user_id) the tier of o's package, whatever tier the buyer held, and
\* changes no other user and no other order.
C28_EntitlementTarget ==
    [][ \A p \in Procs :
            (pc[p] = "update_user_package" /\ pc'[p] = "create_commissions")
            => LET o == loc[p].order
                   buyer == orders[o].user_id
               IN  /\ users'[buyer].package_tier
                          = packages[orders[o].package_id].tier
                   /\ orders'[o].status = COMPLETED
                   /\ \A u \in 1..Len(users) : u # buyer => users'[u] = users[u]
                   /\ \A k \in 1..Len(orders) : k # o => orders'[k] = orders[k]
      ]_vars

\* A buyer with a referrer bought platinum and then silver: the buyer holds
\* silver, the referrer holds nothing and both orders are completed.
C28_Witness ==
    /\ Len(orders) = 2
    /\ orders[1].user_id = orders[2].user_id
    /\ orders[1].status = COMPLETED /\ orders[2].status = COMPLETED
    /\ orders[1].completed_at < orders[2].completed_at
    /\ packages[orders[1].package_id].tier = "platinum"
    /\ packages[orders[2].package_id].tier = "silver"
    /\ users[orders[2].user_id].package_tier = "silver"
    /\ users[orders[2].user_id].referrer_id # NoId
    /\ users[users[orders[2].user_id].referrer_id].package_tier = NoTier
    /\ wins = <<1, 1>>

\* What user u is owed for the first k orders: for every completed order the
\* package's direct_commission when the buyer's referrer is u, plus its
\* indirect_commission when the referrer of the buyer's referrer is u.
RECURSIVE OwedUpTo(_, _)
OwedUpTo(u, k) ==
    IF k = 0 THEN 0
    ELSE LET package == packages[orders[k].package_id]
             a == ReferrerOf(orders[k].user_id)
             b == ReferrerOf(a)
         IN  OwedUpTo(u, k - 1)
             + (IF orders[k].status = COMPLETED /\ a = u
                THEN package.direct_commission ELSE 0)
             + (IF orders[k].status = COMPLETED /\ b = u
                THEN package.indirect_commission ELSE 0)

\* C29: when the calls of a sequential run have returned, for every user
\* get_user_stats gives as total_earned what the user is owed for the
\* completed orders, and direct_earnings + indirect_earnings = total_earned.
C29_EarningsEqualPurchases ==
    (\A p \in Procs : pc[p] = "idle")
    => \A u \in 1..Len(users) :
           LET earnings == get_user_stats(u).earnings
           IN  /\ earnings.total_earned = OwedUpTo(u, Len(orders))
               /\ earnings.direct_earnings + earnings.indirect_earnings
                      = earnings.total_earned

====
